---- MODULE Spec2Model ----
(***************************************************************************)
(* Model of internal/render/pod.go: the pod row renderer of k9s.           *)
(*                                                                         *)
(* The renderer is a set of pure functions over one pod snapshot: the      *)
(* phase classifier (Phase, initContainerPhase, containerPhase,            *)
(* checkContainerStatus), the readiness diagnosis (diagnose), the resource *)
(* aggregation (containerResources, resourceRequests, resourceLimits,      *)
(* podRequests, podLimits), the metrics gatherer (gatherPodMX) and the row *)
(* colorer (ColorerFunc).  Each function is an operator; each              *)
(* specification draws the function's inputs in its initial states and has *)
(* one action that calls the function and stores what it returns.          *)
(*                                                                         *)
(* Go pointers are modelled as sequences of length at most one: Nil is the *)
(* nil pointer, Ptr(v) points to v.  Go strings are TLA+ strings, built    *)
(* with \o as the code builds them with +.                                 *)
(***************************************************************************)
EXTENDS Integers, Sequences, FiniteSets, TLC

VARIABLES
    op,     \* the function under call: "Phase", "diagnose", ...
    pc,     \* "call" before the function ran, "done" after it returned
    po,     \* the pod: DeletionTimestamp, Status, Spec
    cc,     \* a scope of containers handed to resourceRequests/resourceLimits
    mx,     \* the pod metrics snapshot: Nil, or Ptr of the containers' usages
    dg,     \* the arguments of diagnose: phase, cr, ct
    h,      \* the table header handed to the colorer
    re,     \* the row event handed to the colorer
    ret     \* what the function returned

vars == <<op, pc, po, cc, mx, dg, h, re, ret>>

-----------------------------------------------------------------------------
(* Bounds of the model.                                                    *)

MaxInitStatuses == 2
MaxStatuses == 2
MaxScope == 3
MaxContainers == 2
MaxInitContainers == 1
MaxUsages == 2
MaxCount == 3

-----------------------------------------------------------------------------
(* Pointers and strconv.Itoa.                                              *)

Nil == <<>>
Ptr(v) == <<v>>
Deref(p) == p[1]

Digit(d) ==
    CASE d = 0 -> "0" [] d = 1 -> "1" [] d = 2 -> "2" [] d = 3 -> "3"
      [] d = 4 -> "4" [] d = 5 -> "5" [] d = 6 -> "6" [] d = 7 -> "7"
      [] d = 8 -> "8" [] d = 9 -> "9"

RECURSIVE Itoa(_)
Itoa(n) ==
    IF n < 0 THEN "-" \o Itoa(-n)
    ELSE IF n < 10 THEN Digit(n)
    ELSE Itoa(n \div 10) \o Digit(n % 10)

SeqsUpTo(S, n) == UNION {[1..k -> S] : k \in 0..n}

-----------------------------------------------------------------------------
(* Status labels the renderer compares against.                            *)

Terminating == "Terminating"
Running == "Running"
Initialized == "Initialized"
Completed == "Completed"
ContainerCreating == "ContainerCreating"
PodInitializing == "PodInitializing"
Pending == "Pending"

-----------------------------------------------------------------------------
(* v1.ContainerState and v1.ContainerStatus.  The API sets at most one of  *)
(* Waiting, Running and Terminated.                                        *)

StateWaiting(reason) ==
    [Waiting |-> Ptr([Reason |-> reason]), Running |-> Nil, Terminated |-> Nil]
StateRunning ==
    [Waiting |-> Nil, Running |-> Ptr([StartedAt |-> 0]), Terminated |-> Nil]
StateTerminated(reason, exitCode, signal) ==
    [Waiting |-> Nil, Running |-> Nil,
     Terminated |-> Ptr([Reason |-> reason, ExitCode |-> exitCode, Signal |-> signal])]

ContainerStatus(ready, state) == [Ready |-> ready, State |-> state]

-----------------------------------------------------------------------------
(* The phase classifier.                                                   *)

checkContainerStatus(cs, i, initCount) ==
    IF cs.State.Terminated # Nil THEN
        IF Deref(cs.State.Terminated).ExitCode = 0 THEN ""
        ELSE IF Deref(cs.State.Terminated).Reason # "" THEN
            "Init:" \o Deref(cs.State.Terminated).Reason
        ELSE IF Deref(cs.State.Terminated).Signal # 0 THEN
            "Init:Signal:" \o Itoa(Deref(cs.State.Terminated).Signal)
        ELSE "Init:ExitCode:" \o Itoa(Deref(cs.State.Terminated).ExitCode)
    ELSE IF /\ cs.State.Waiting # Nil
            /\ Deref(cs.State.Waiting).Reason # ""
            /\ Deref(cs.State.Waiting).Reason # "PodInitializing" THEN
        "Init:" \o Deref(cs.State.Waiting).Reason
    ELSE "Init:" \o Itoa(i) \o "/" \o Itoa(initCount)

\* The loop of initContainerPhase from (1-based) position k on; the label of
\* position k is computed with the Go index k - 1.
RECURSIVE initContainerPhaseFrom(_, _, _, _)
initContainerPhaseFrom(ics, k, initCount, status) ==
    IF k > Len(ics) THEN <<status, FALSE>>
    ELSE LET s == checkContainerStatus(ics[k], k - 1, initCount)
         IN  IF s = "" THEN initContainerPhaseFrom(ics, k + 1, initCount, status)
             ELSE <<s, TRUE>>

\* Mutant: the scan keeps the label of the last init container that yields one.
initContainerPhase_LastWins(st, initCount, status) ==
    LET ics == st.InitContainerStatuses
        hit == {k \in DOMAIN ics : checkContainerStatus(ics[k], k - 1, initCount) # ""}
    IN  IF hit = {} THEN <<status, FALSE>>
        ELSE LET k == CHOOSE x \in hit : \A y \in hit : y <= x
             IN  <<checkContainerStatus(ics[k], k - 1, initCount), TRUE>>

initContainerPhase(st, initCount, status) ==
    initContainerPhaseFrom(st.InitContainerStatuses, 1, initCount, status)

\* One iteration of the loop of containerPhase: acc is <<status, running>>.
containerPhaseStep(cs, acc) ==
    IF cs.State.Waiting # Nil /\ Deref(cs.State.Waiting).Reason # "" THEN
        <<Deref(cs.State.Waiting).Reason, acc[2]>>
    ELSE IF cs.State.Terminated # Nil /\ Deref(cs.State.Terminated).Reason # "" THEN
        <<Deref(cs.State.Terminated).Reason, acc[2]>>
    ELSE IF cs.State.Terminated # Nil THEN
        IF Deref(cs.State.Terminated).Signal # 0 THEN
            <<"Signal:" \o Itoa(Deref(cs.State.Terminated).Signal), acc[2]>>
        ELSE <<"ExitCode:" \o Itoa(Deref(cs.State.Terminated).ExitCode), acc[2]>>
    ELSE IF cs.Ready /\ cs.State.Running # Nil THEN <<acc[1], TRUE>>
    ELSE acc

\* The loop of containerPhase from (1-based) position k down to position 1.
RECURSIVE containerPhaseFrom(_, _, _)
containerPhaseFrom(css, k, acc) ==
    IF k < 1 THEN acc
    ELSE containerPhaseFrom(css, k - 1, containerPhaseStep(css[k], acc))

\* Mutant: the scan runs from index 0 upwards, so the last match wins.
containerPhase_Forward(st, status) ==
    LET css == st.ContainerStatuses
        rev == [i \in 1..Len(css) |-> css[Len(css) + 1 - i]]
    IN  containerPhaseFrom(rev, Len(rev), <<status, FALSE>>)

containerPhase(st, status) ==
    containerPhaseFrom(st.ContainerStatuses, Len(st.ContainerStatuses), <<status, FALSE>>)

\* Mutant: the NodeLost check runs after the init container scan.
Phase_NodeLostAfterInit(pod) ==
    LET status1 == IF pod.Status.Reason # "" THEN pod.Status.Reason ELSE pod.Status.Phase
        ini == initContainerPhase(pod.Status, Len(pod.Spec.InitContainers), status1)
        con == containerPhase(pod.Status, ini[1])
        status2 == IF con[2] /\ con[1] = Completed THEN Running ELSE con[1]
    IN  IF ini[2] THEN ini[1]
        ELSE IF pod.DeletionTimestamp # Nil /\ pod.Status.Reason = "NodeLost" THEN "Unknown"
        ELSE IF pod.DeletionTimestamp = Nil THEN status2
        ELSE Terminating

\* Mutant: a ready, Running container keeps a pod under deletion from being
\* reported Terminating.
Phase_RunningBeatsDeletion(pod) ==
    LET status1 == IF pod.Status.Reason # "" THEN pod.Status.Reason ELSE pod.Status.Phase
        ini == initContainerPhase(pod.Status, Len(pod.Spec.InitContainers), status1)
        con == containerPhase(pod.Status, ini[1])
        status2 == IF con[2] /\ con[1] = Completed THEN Running ELSE con[1]
    IN  IF pod.DeletionTimestamp # Nil /\ pod.Status.Reason = "NodeLost" THEN "Unknown"
        ELSE IF ini[2] THEN ini[1]
        ELSE IF pod.DeletionTimestamp = Nil \/ con[2] THEN status2
        ELSE Terminating

Phase(pod) ==
    LET status0 == pod.Status.Phase
        status1 == IF pod.Status.Reason # "" THEN pod.Status.Reason ELSE status0
        ini == initContainerPhase(pod.Status, Len(pod.Spec.InitContainers), status1)
        con == containerPhase(pod.Status, ini[1])
        status2 == IF con[2] /\ con[1] = Completed THEN Running ELSE con[1]
    IN  IF /\ pod.Status.Reason # ""
           /\ pod.DeletionTimestamp # Nil
           /\ pod.Status.Reason = "NodeLost" THEN "Unknown"
        ELSE IF ini[2] THEN ini[1]
        ELSE IF pod.DeletionTimestamp = Nil THEN status2
        ELSE Terminating

-----------------------------------------------------------------------------
(* The inputs of the phase classifier.                                     *)

PodPhases == {"Pending", "Running"}
PodReasons == {"", "NodeLost", "Evicted"}

InitContainerStatuses ==
    {ContainerStatus(FALSE, s) : s \in
        {StateTerminated("Completed", 0, 0),
         StateTerminated("Error", 1, 0),
         StateTerminated("", 1, 9),
         StateTerminated("", 2, 0),
         StateWaiting("PodInitializing"),
         StateWaiting("ImagePullBackOff"),
         StateRunning}}

ContainerStatuses ==
    {ContainerStatus(FALSE, s) : s \in
        {StateWaiting("CrashLoopBackOff"),
         StateWaiting(""),
         StateTerminated("Completed", 0, 0),
         StateTerminated("", 1, 9),
         StateTerminated("", 1, 0),
         StateRunning}}
    \cup {ContainerStatus(TRUE, StateRunning)}

NoResources == [Requests |-> [cpu |-> Nil, memory |-> Nil],
                Limits |-> [cpu |-> Nil, memory |-> Nil]]
NoContainer == [Resources |-> NoResources]
NoSpec == [InitContainers |-> <<>>, Containers |-> <<>>]
NoStatus == [Phase |-> "Running", Reason |-> "",
             InitContainerStatuses |-> <<>>, ContainerStatuses |-> <<>>]
NoPod == [DeletionTimestamp |-> Nil, Status |-> NoStatus, Spec |-> NoSpec]
NoDiag == [phase |-> "", cr |-> 0, ct |-> 0]
NoHeader == <<>>
NoRow == [Kind |-> "EventUnchanged", Row |-> [Fields |-> <<>>, Happy |-> TRUE]]
NoRet == <<>>

\* A pod whose status varies and whose spec only fixes the init container count.
PhasePod(d, p, r, ics, css, n) ==
    [DeletionTimestamp |-> d,
     Status |-> [Phase |-> p, Reason |-> r,
                 InitContainerStatuses |-> ics, ContainerStatuses |-> css],
     Spec |-> [InitContainers |-> [i \in 1..n |-> NoContainer], Containers |-> <<>>]]

InitPhase ==
    /\ op = "Phase" /\ pc = "call"
    /\ \E d \in {Nil, Ptr(1)}, p \in PodPhases, r \in PodReasons,
          ics \in SeqsUpTo(InitContainerStatuses, MaxInitStatuses),
          css \in SeqsUpTo(ContainerStatuses, MaxStatuses) :
            \E n \in Len(ics)..MaxInitStatuses : po = PhasePod(d, p, r, ics, css, n)
    /\ cc = <<>> /\ mx = Nil /\ dg = NoDiag /\ h = NoHeader /\ re = NoRow
    /\ ret = NoRet

CallPhase ==
    /\ op = "Phase" /\ pc = "call"
    /\ ret' = <<Phase(po)>>
    /\ pc' = "done"
    /\ UNCHANGED <<op, po, cc, mx, dg, h, re>>

NextPhase == CallPhase

SpecPhase == InitPhase /\ [][NextPhase]_vars

-----------------------------------------------------------------------------
(* Properties of the phase classifier.                                     *)

PhaseDone == op = "Phase" /\ pc = "done"
Deleted == po.DeletionTimestamp # Nil
NodeLost == Deleted /\ po.Status.Reason = "NodeLost"

\* An init container status that is Terminated with exit code 0.
InitSucceeded(cs) ==
    cs.State.Terminated # Nil /\ Deref(cs.State.Terminated).ExitCode = 0

\* The positions of the init container statuses that did not succeed.
InitPending == {k \in DOMAIN po.Status.InitContainerStatuses :
                    ~InitSucceeded(po.Status.InitContainerStatuses[k])}
FirstInitPending == CHOOSE k \in InitPending : \A j \in InitPending : k <= j

\* The label the classification rules give the init container status at
\* position k (Go index k - 1) of a pod that declares n init containers.
InitLabel(k, n) ==
    LET st == po.Status.InitContainerStatuses[k].State
    IN  CASE st.Terminated # Nil /\ Deref(st.Terminated).Reason # "" ->
                "Init:" \o Deref(st.Terminated).Reason
          [] st.Terminated # Nil /\ Deref(st.Terminated).Reason = ""
                /\ Deref(st.Terminated).Signal # 0 ->
                "Init:Signal:" \o Itoa(Deref(st.Terminated).Signal)
          [] st.Terminated # Nil /\ Deref(st.Terminated).Reason = ""
                /\ Deref(st.Terminated).Signal = 0 ->
                "Init:ExitCode:" \o Itoa(Deref(st.Terminated).ExitCode)
          [] st.Terminated = Nil /\ st.Waiting # Nil
                /\ Deref(st.Waiting).Reason \notin {"", "PodInitializing"} ->
                "Init:" \o Deref(st.Waiting).Reason
          [] OTHER -> "Init:" \o Itoa(k - 1) \o "/" \o Itoa(n)

\* Some regular container is ready and Running.
SawRunning ==
    \E k \in DOMAIN po.Status.ContainerStatuses :
        /\ po.Status.ContainerStatuses[k].Ready
        /\ po.Status.ContainerStatuses[k].State.Running # Nil

\* C1: a pod under deletion whose status reason is "NodeLost" is reported
\* "Unknown", whatever its phase, its init container statuses and its regular
\* container statuses are.
C1_NodeLostUnknown == PhaseDone /\ NodeLost => ret = <<"Unknown">>

\* C1 happens: a NodeLost pod under deletion with a pending init container and
\* a ready, Running regular container was classified.
C1_Witness ==
    /\ PhaseDone /\ NodeLost /\ SawRunning /\ InitPending # {}
    /\ ret = <<"Unknown">>

\* C2: a pod under deletion whose reason is not "NodeLost" and all of whose
\* init container statuses are Terminated with exit code 0 (or that has none)
\* is reported "Terminating", whatever its phase, its reason and its regular
\* container statuses are.
C2_DeletionTerminating ==
    PhaseDone /\ Deleted /\ po.Status.Reason # "NodeLost" /\ InitPending = {}
        => ret = <<Terminating>>

\* C2 happens: a pod under deletion with a succeeded init container, a ready
\* Running container and a container waiting with a reason was classified.
C2_Witness ==
    /\ PhaseDone /\ Deleted /\ po.Status.Reason = "Evicted"
    /\ InitPending = {} /\ po.Status.InitContainerStatuses # <<>>
    /\ SawRunning
    /\ \E k \in DOMAIN po.Status.ContainerStatuses :
            po.Status.ContainerStatuses[k].State.Waiting # Nil
    /\ ret = <<Terminating>>

\* C3: when the NodeLost short-circuit does not apply and some init container
\* status is not Terminated with exit code 0, the phase is the init label of
\* the lowest-indexed such status, whatever the later init container
\* statuses, the regular container statuses and the deletion marker are; it
\* is never "Terminating".
C3_FirstInitLabel ==
    PhaseDone /\ ~NodeLost /\ InitPending # {}
        => /\ ret = <<InitLabel(FirstInitPending, Len(po.Spec.InitContainers))>>
           /\ ret # <<Terminating>>

\* C3 happens: a pod under deletion whose first init container succeeded,
\* whose second failed with exit code 2 and no reason or signal, and which has
\* regular container statuses, was classified "Init:ExitCode:2".
C3_Witness ==
    /\ PhaseDone /\ Deleted /\ ~NodeLost
    /\ Len(po.Status.InitContainerStatuses) = 2 /\ InitPending = {2}
    /\ po.Status.ContainerStatuses # <<>>
    /\ ret = <<"Init:ExitCode:2">>


\* A regular container status that matches a labelling case.
Labelled(cs) ==
    \/ cs.State.Waiting # Nil /\ Deref(cs.State.Waiting).Reason # ""
    \/ cs.State.Terminated # Nil

\* The label of a regular container status that matches a labelling case.
ContainerLabel(cs) ==
    CASE cs.State.Waiting # Nil -> Deref(cs.State.Waiting).Reason
      [] cs.State.Terminated # Nil /\ Deref(cs.State.Terminated).Reason # "" ->
            Deref(cs.State.Terminated).Reason
      [] cs.State.Terminated # Nil /\ Deref(cs.State.Terminated).Reason = ""
            /\ Deref(cs.State.Terminated).Signal # 0 ->
            "Signal:" \o Itoa(Deref(cs.State.Terminated).Signal)
      [] OTHER -> "ExitCode:" \o Itoa(Deref(cs.State.Terminated).ExitCode)

LabelledAt == {k \in DOMAIN po.Status.ContainerStatuses :
                    Labelled(po.Status.ContainerStatuses[k])}
FirstLabelled == CHOOSE k \in LabelledAt : \A j \in LabelledAt : k <= j

\* The status reason if present, else the pod phase.
BaseLabel == IF po.Status.Reason # "" THEN po.Status.Reason ELSE po.Status.Phase

ScanLabel ==
    IF LabelledAt # {} THEN ContainerLabel(po.Status.ContainerStatuses[FirstLabelled])
    ELSE BaseLabel

\* C9: with no init container override and no deletion, the phase is the
\* label of the lowest-indexed regular container status that matches a
\* labelling case, or the base label when none matches; except that the
\* label "Completed" becomes "Running" when some regular container is ready
\* and Running.
C9_ContainerLabel ==
    PhaseDone /\ ~Deleted /\ InitPending = {}
        => ret = <<IF ScanLabel = Completed /\ SawRunning THEN Running ELSE ScanLabel>>

\* C9 happens: two regular containers match with different labels and the
\* lower-indexed one decided the phase.
C9_Witness ==
    /\ PhaseDone /\ ~Deleted /\ InitPending = {}
    /\ LabelledAt = {1, 2}
    /\ ContainerLabel(po.Status.ContainerStatuses[1])
            # ContainerLabel(po.Status.ContainerStatuses[2])
    /\ ret = <<ContainerLabel(po.Status.ContainerStatuses[1])>>

-----------------------------------------------------------------------------
(* Resource quantities and lists.  A resource.Quantity is modelled by the  *)
(* integer the renderer reads from it: millicores for cpu (MilliValue),    *)
(* bytes for memory (Value).  A v1.ResourceList maps "cpu" and "memory" to *)
(* a quantity, or to nothing (Nil).                                        *)

ResourceList(cpu, memory) == [cpu |-> cpu, memory |-> memory]

\* len(rl)
LenRL(rl) == (IF rl.cpu # Nil THEN 1 ELSE 0) + (IF rl.memory # Nil THEN 1 ELSE 0)

\* rl.Cpu() and rl.Memory(): the entry, or a fresh zero quantity; never nil.
Cpu(rl) == IF rl.cpu # Nil THEN rl.cpu ELSE Ptr(0)
Memory(rl) == IF rl.memory # Nil THEN rl.memory ELSE Ptr(0)

Container(req, limit) == [Resources |-> [Requests |-> req, Limits |-> limit]]

-----------------------------------------------------------------------------
(* The resource aggregation.                                               *)

\* Mutant: limits are preferred when a container declares both.
containerResources_LimitsFirst(co) ==
    LET req == co.Resources.Requests
        limit == co.Resources.Limits
    IN  IF LenRL(limit) # 0 THEN <<Cpu(limit), Memory(limit)>>
        ELSE IF LenRL(req) # 0 THEN <<Cpu(req), Memory(req)>>
        ELSE <<Nil, Nil>>

containerResources(co) ==
    LET req == co.Resources.Requests
        limit == co.Resources.Limits
    IN  IF LenRL(req) # 0 THEN <<Cpu(req), Memory(req)>>
        ELSE IF LenRL(limit) # 0 THEN <<Cpu(limit), Memory(limit)>>
        ELSE <<Nil, Nil>>

containerLimits(co) ==
    LET limit == co.Resources.Limits
    IN  IF LenRL(limit) = 0 THEN <<Nil, Nil>> ELSE <<Cpu(limit), Memory(limit)>>

\* The loop of resourceRequests from position k on, with the running totals.
RECURSIVE resourceRequestsFrom(_, _, _, _)
resourceRequestsFrom(scope, k, cpu, mem) ==
    IF k > Len(scope) THEN <<cpu, mem>>
    ELSE LET r == containerResources(scope[k])
         IN  IF r[1] = Nil \/ r[2] = Nil THEN <<0, 0>>
             ELSE resourceRequestsFrom(scope, k + 1,
                    IF r[1] # Nil THEN cpu + Deref(r[1]) ELSE cpu,
                    IF r[2] # Nil THEN mem + Deref(r[2]) ELSE mem)

\* Mutant: an undefined container is skipped; the totals are not reset.
RECURSIVE resourceRequests_PartialSum(_)
resourceRequests_PartialSum(scope) ==
    IF scope = <<>> THEN <<0, 0>>
    ELSE LET r == containerResources(Head(scope))
             t == resourceRequests_PartialSum(Tail(scope))
         IN  IF r[1] = Nil \/ r[2] = Nil THEN t
             ELSE <<Deref(r[1]) + t[1], Deref(r[2]) + t[2]>>

resourceRequests(scope) == resourceRequestsFrom(scope, 1, 0, 0)

\* The loop of resourceLimits from position k on, with the running totals.
RECURSIVE resourceLimitsFrom(_, _, _, _)
resourceLimitsFrom(scope, k, cpu, mem) ==
    IF k > Len(scope) THEN <<cpu, mem>>
    ELSE LET limit == scope[k].Resources.Limits
         IN  IF LenRL(limit) = 0 THEN <<0, 0>>
             ELSE resourceLimitsFrom(scope, k + 1,
                    IF Cpu(limit) # Nil THEN cpu + Deref(Cpu(limit)) ELSE cpu,
                    IF Memory(limit) # Nil THEN mem + Deref(Memory(limit)) ELSE mem)

resourceLimits(scope) == resourceLimitsFrom(scope, 1, 0, 0)

podLimits(spec) ==
    LET c == resourceLimits(spec.Containers)
        i == resourceLimits(spec.InitContainers)
    IN  <<c[1] + i[1], c[2] + i[2]>>

\* Mutant: the regular and the init containers are aggregated as one scope.
podRequests_OneScope(spec) == resourceRequests(spec.Containers \o spec.InitContainers)

podRequests(spec) ==
    LET c == resourceRequests(spec.Containers)
        i == resourceRequests(spec.InitContainers)
    IN  <<c[1] + i[1], c[2] + i[2]>>

-----------------------------------------------------------------------------
(* The inputs of the resource aggregation.                                 *)

MegaByte == 1048576

RequestLists ==
    {ResourceList(Nil, Nil),
     ResourceList(Ptr(250), Nil),
     ResourceList(Ptr(100), Ptr(64 * MegaByte))}

LimitLists ==
    {ResourceList(Nil, Nil),
     ResourceList(Nil, Ptr(512 * 1024)),
     ResourceList(Ptr(200), Ptr(128 * MegaByte))}

Containers == {Container(req, limit) : req \in RequestLists, limit \in LimitLists}

InitScope ==
    /\ op \in {"resourceRequests", "resourceLimits"} /\ pc = "call"
    /\ cc \in SeqsUpTo(Containers, MaxScope)
    /\ po = NoPod /\ mx = Nil /\ dg = NoDiag /\ h = NoHeader /\ re = NoRow
    /\ ret = NoRet

CallResourceRequests ==
    /\ op = "resourceRequests" /\ pc = "call"
    /\ ret' = resourceRequests(cc)
    /\ pc' = "done"
    /\ UNCHANGED <<op, po, cc, mx, dg, h, re>>

CallResourceLimits ==
    /\ op = "resourceLimits" /\ pc = "call"
    /\ ret' = resourceLimits(cc)
    /\ pc' = "done"
    /\ UNCHANGED <<op, po, cc, mx, dg, h, re>>

NextScope == CallResourceRequests \/ CallResourceLimits

SpecScope == InitScope /\ [][NextScope]_vars

\* A pod whose spec varies.
SpecPod(cs, ics) ==
    [DeletionTimestamp |-> Nil, Status |-> NoStatus,
     Spec |-> [InitContainers |-> ics, Containers |-> cs]]

InitPod ==
    /\ op \in {"podRequests", "podLimits"} /\ pc = "call"
    /\ \E cs \in SeqsUpTo(Containers, MaxContainers),
          ics \in SeqsUpTo(Containers, MaxInitContainers) : po = SpecPod(cs, ics)
    /\ cc = <<>> /\ mx = Nil /\ dg = NoDiag /\ h = NoHeader /\ re = NoRow
    /\ ret = NoRet

CallPodRequests ==
    /\ op = "podRequests" /\ pc = "call"
    /\ ret' = podRequests(po.Spec)
    /\ pc' = "done"
    /\ UNCHANGED <<op, po, cc, mx, dg, h, re>>

CallPodLimits ==
    /\ op = "podLimits" /\ pc = "call"
    /\ ret' = podLimits(po.Spec)
    /\ pc' = "done"
    /\ UNCHANGED <<op, po, cc, mx, dg, h, re>>

NextPod == CallPodRequests \/ CallPodLimits

SpecPodTotals == InitPod /\ [][NextPod]_vars

-----------------------------------------------------------------------------
(* Properties of the resource aggregation.                                 *)

\* The quantity an optional entry stands for in a sum.
Amount(p) == IF p = Nil THEN 0 ELSE Deref(p)

\* A container with neither a request nor a limit.
Undefined(co) ==
    /\ co.Resources.Requests = ResourceList(Nil, Nil)
    /\ co.Resources.Limits = ResourceList(Nil, Nil)

\* A container that lacks a request for cpu or for memory.
LacksRequest(co) ==
    co.Resources.Requests.cpu = Nil \/ co.Resources.Requests.memory = Nil

\* A container with no limit at all.
NoLimits(co) == co.Resources.Limits = ResourceList(Nil, Nil)

\* The (cpu, mem) pair extracted from a container: its requests when it
\* declares any, else its limits.
ExtractedPair(co) ==
    LET rl == IF co.Resources.Requests # ResourceList(Nil, Nil)
              THEN co.Resources.Requests ELSE co.Resources.Limits
    IN  <<Amount(rl.cpu), Amount(rl.memory)>>

LimitPair(co) == <<Amount(co.Resources.Limits.cpu), Amount(co.Resources.Limits.memory)>>

RECURSIVE SumRequests(_)
SumRequests(scope) ==
    IF scope = <<>> THEN <<0, 0>>
    ELSE LET t == SumRequests(Tail(scope))
             e == ExtractedPair(Head(scope))
         IN  <<e[1] + t[1], e[2] + t[2]>>

RECURSIVE SumLimits(_)
SumLimits(scope) ==
    IF scope = <<>> THEN <<0, 0>>
    ELSE LET t == SumLimits(Tail(scope))
             e == LimitPair(Head(scope))
         IN  <<e[1] + t[1], e[2] + t[2]>>

\* The total of a scope: zero when it holds an undefined container.
ScopeRequests(scope) ==
    IF \E k \in DOMAIN scope : Undefined(scope[k]) THEN <<0, 0>> ELSE SumRequests(scope)
ScopeLimits(scope) ==
    IF \E k \in DOMAIN scope : NoLimits(scope[k]) THEN <<0, 0>> ELSE SumLimits(scope)

RequestsDone == op = "resourceRequests" /\ pc = "done"

\* C4 as stated: if any container of the scope lacks a request for cpu or for
\* mem, the scope's request total is zero for cpu and for mem.
C4_LacksRequestZero ==
    RequestsDone /\ (\E k \in DOMAIN cc : LacksRequest(cc[k])) => ret = <<0, 0>>

\* C4 as amended: if any container of the scope declares neither a request
\* nor a limit, the scope's request total is zero for cpu and for mem.
C4_UndefinedZero ==
    RequestsDone /\ (\E k \in DOMAIN cc : Undefined(cc[k])) => ret = <<0, 0>>

\* C4 happens: a scope whose first container declares requests and whose last
\* declares nothing was aggregated to zero.
C4_Witness ==
    /\ RequestsDone /\ Len(cc) >= 2
    /\ ExtractedPair(cc[1])[1] > 0 /\ ExtractedPair(cc[1])[2] > 0
    /\ Undefined(cc[Len(cc)])
    /\ ret = <<0, 0>>

\* C5: for a scope without an undefined container, resourceRequests returns
\* the component-wise sum of the containers' extracted pairs (requests when
\* any is declared, else limits), and returns the same for every permutation
\* of the scope.
C5_SumAnyOrder ==
    RequestsDone /\ (\A k \in DOMAIN cc : ~Undefined(cc[k]))
        => /\ ret = SumRequests(cc)
           /\ \A f \in Permutations(DOMAIN cc) :
                resourceRequests([i \in DOMAIN cc |-> cc[f[i]]]) = ret

\* C5 happens: a scope of three different defined containers, one of them
\* falling back to its limits, one declaring both, was summed.
C5_Witness ==
    /\ RequestsDone /\ Len(cc) = 3
    /\ \A k \in DOMAIN cc : ~Undefined(cc[k])
    /\ cc[1] # cc[2] /\ cc[2] # cc[3] /\ cc[1] # cc[3]
    /\ \E k \in DOMAIN cc : cc[k].Resources.Requests = ResourceList(Nil, Nil)
    /\ \E k \in DOMAIN cc : ~LacksRequest(cc[k]) /\ ~NoLimits(cc[k])
    /\ ret = SumRequests(cc) /\ ret[1] > 0 /\ ret[2] > 0

Plus(a, b) == <<a[1] + b[1], a[2] + b[2]>>

\* C10: podRequests (podLimits) is the regular scope's request (limit) total
\* plus the init scope's, each scope aggregated and reset on its own; for
\* limits a container is undefined exactly when it declares no limit.
C10_PodTotals ==
    /\ op = "podRequests" /\ pc = "done" =>
            ret = Plus(ScopeRequests(po.Spec.Containers),
                       ScopeRequests(po.Spec.InitContainers))
    /\ op = "podLimits" /\ pc = "done" =>
            ret = Plus(ScopeLimits(po.Spec.Containers),
                       ScopeLimits(po.Spec.InitContainers))

\* C10 happens: the regular scope was reset by an undefined container that
\* follows a defined one, and the pod total is the init scope's non-zero sum.
C10_Witness ==
    /\ op = "podRequests" /\ pc = "done"
    /\ Len(po.Spec.Containers) = 2
    /\ ~Undefined(po.Spec.Containers[1]) /\ Undefined(po.Spec.Containers[2])
    /\ po.Spec.InitContainers # <<>>
    /\ ret = SumRequests(po.Spec.InitContainers) /\ ret[1] > 0 /\ ret[2] > 0

-----------------------------------------------------------------------------
(* The readiness diagnosis.  An error is Nil or points to its message.     *)

\* Mutant: a pod without container statuses is not diagnosed.
diagnose_ZeroTotalHealthy(phase, cr, ct) ==
    IF phase = Completed THEN Nil
    ELSE IF cr # ct THEN
        Ptr("container ready check failed: " \o Itoa(cr) \o " of " \o Itoa(ct))
    ELSE Nil

diagnose(phase, cr, ct) ==
    IF phase = Completed THEN Nil
    ELSE IF cr # ct \/ ct = 0 THEN
        Ptr("container ready check failed: " \o Itoa(cr) \o " of " \o Itoa(ct))
    ELSE Nil

DiagPhases == {Completed, Running, Pending, Terminating, "Init:0/1", "Error", ""}

InitDiagnose ==
    /\ op = "diagnose" /\ pc = "call"
    /\ dg \in [phase : DiagPhases, cr : 0..MaxCount, ct : 0..MaxCount]
    /\ po = NoPod /\ cc = <<>> /\ mx = Nil /\ h = NoHeader /\ re = NoRow
    /\ ret = NoRet

CallDiagnose ==
    /\ op = "diagnose" /\ pc = "call"
    /\ ret' = <<diagnose(dg.phase, dg.cr, dg.ct)>>
    /\ pc' = "done"
    /\ UNCHANGED <<op, po, cc, mx, dg, h, re>>

NextDiagnose == CallDiagnose

SpecDiagnose == InitDiagnose /\ [][NextDiagnose]_vars

\* C6: diagnose returns no diagnostic exactly when the phase is "Completed",
\* or ready = total and total > 0; in every other case it returns
\* "container ready check failed: <ready> of <total>" with those two counts.
C6_Diagnose ==
    op = "diagnose" /\ pc = "done" =>
        IF dg.phase = "Completed" \/ (dg.cr = dg.ct /\ dg.ct > 0)
        THEN ret = <<Nil>>
        ELSE ret = <<Ptr("container ready check failed: "
                            \o Itoa(dg.cr) \o " of " \o Itoa(dg.ct))>>

\* C6 happens: a Running pod without container statuses was diagnosed
\* "container ready check failed: 0 of 0".
C6_Witness ==
    /\ op = "diagnose" /\ pc = "done"
    /\ dg = [phase |-> "Running", cr |-> 0, ct |-> 0]
    /\ ret = <<Ptr("container ready check failed: 0 of 0")>>

-----------------------------------------------------------------------------
(* The metrics gatherer.  A metric holds display strings; the resources    *)
(* map is Nil or points to the four totals.                                *)

NA == "n/a"
noMetric == [cpu |-> NA, mem |-> NA, cpuLim |-> NA, memLim |-> NA]

\* client.ToMB: bytes to whole megabytes.
ToMB(v) == v \div MegaByte

\* client.ToPercentageStr: the sentinel for a zero denominator, else the
\* whole percentage.
ToPercentageStr(v1, v2) == IF v2 = 0 THEN NA ELSE Itoa((v1 * 100) \div v2)

\* ToMc and ToMi: the decimal rendering of the value.
ToMc(v) == Itoa(v)
ToMi(v) == Itoa(v)

\* The loop of currentRes from position k on, with the running totals.
RECURSIVE currentResFrom(_, _, _, _)
currentResFrom(cos, k, cpu, mem) ==
    IF k > Len(cos) THEN <<cpu, mem>>
    ELSE currentResFrom(cos, k + 1,
            cpu + Deref(Cpu(cos[k].Usage)), mem + Deref(Memory(cos[k].Usage)))

currentRes(m) == IF m = Nil THEN <<0, 0>> ELSE currentResFrom(Deref(m).Containers, 1, 0, 0)

\* Mutant: the cpu limit percentage is taken against the cpu request total.
gatherPodMX_RequestDenominator(pod, m) ==
    IF m = Nil THEN <<noMetric, noMetric, Nil>>
    ELSE LET cur == currentRes(m)
             rq == podRequests(pod.Spec)
             lm == podLimits(pod.Spec)
         IN  <<[cpu |-> ToMc(cur[1]), mem |-> ToMi(ToMB(cur[2])),
                cpuLim |-> "", memLim |-> ""],
               [cpu |-> ToPercentageStr(cur[1], rq[1]),
                mem |-> ToPercentageStr(ToMB(cur[2]), ToMB(rq[2])),
                cpuLim |-> ToPercentageStr(cur[1], rq[1]),
                memLim |-> ToPercentageStr(ToMB(cur[2]), ToMB(lm[2]))],
               Ptr([rcpu |-> rq[1], rmem |-> rq[2], lcpu |-> lm[1], lmem |-> lm[2]])>>

\* <<c, p, r>>.  The name-to-usage map the code builds first is never read.
gatherPodMX(pod, m) ==
    IF m = Nil THEN <<noMetric, noMetric, Nil>>
    ELSE LET cur == currentRes(m)
             rq == podRequests(pod.Spec)
             lm == podLimits(pod.Spec)
         IN  <<[cpu |-> ToMc(cur[1]), mem |-> ToMi(ToMB(cur[2])),
                cpuLim |-> "", memLim |-> ""],
               [cpu |-> ToPercentageStr(cur[1], rq[1]),
                mem |-> ToPercentageStr(ToMB(cur[2]), ToMB(rq[2])),
                cpuLim |-> ToPercentageStr(cur[1], lm[1]),
                memLim |-> ToPercentageStr(ToMB(cur[2]), ToMB(lm[2]))],
               Ptr([rcpu |-> rq[1], rmem |-> rq[2], lcpu |-> lm[1], lmem |-> lm[2]])>>

ContainerMetrics ==
    {[Name |-> "app", Usage |-> ResourceList(Ptr(300), Ptr(32 * MegaByte))],
     [Name |-> "sidecar", Usage |-> ResourceList(Ptr(50), Ptr(512 * 1024))]}

PodMetrics == {Nil} \cup {Ptr([Containers |-> u]) : u \in SeqsUpTo(ContainerMetrics, MaxUsages)}

InitMX ==
    /\ op = "gatherPodMX" /\ pc = "call"
    /\ \E cs \in SeqsUpTo(Containers, MaxContainers),
          ics \in SeqsUpTo(Containers, MaxInitContainers) : po = SpecPod(cs, ics)
    /\ mx \in PodMetrics
    /\ cc = <<>> /\ dg = NoDiag /\ h = NoHeader /\ re = NoRow
    /\ ret = NoRet

CallGatherPodMX ==
    /\ op = "gatherPodMX" /\ pc = "call"
    /\ ret' = gatherPodMX(po, mx)
    /\ pc' = "done"
    /\ UNCHANGED <<op, po, cc, mx, dg, h, re>>

NextMX == CallGatherPodMX

SpecMX == InitMX /\ [][NextMX]_vars

\* The pod's request and limit totals, from the aggregation rules.
PodRequestTotal ==
    Plus(ScopeRequests(po.Spec.Containers), ScopeRequests(po.Spec.InitContainers))
PodLimitTotal ==
    Plus(ScopeLimits(po.Spec.Containers), ScopeLimits(po.Spec.InitContainers))

\* C7: with a usage snapshot, each of the four percentages is the "not
\* available" sentinel whenever its own denominator total is zero, whatever
\* the usage; and a percentage whose own denominator (cpu millicores, memory
\* in whole megabytes) is not zero is not the sentinel, whatever the other
\* three denominators are.
C7_ZeroDenominator ==
    op = "gatherPodMX" /\ pc = "done" /\ mx # Nil =>
        /\ PodRequestTotal[1] = 0 => ret[2].cpu = NA
        /\ PodRequestTotal[2] = 0 => ret[2].mem = NA
        /\ PodLimitTotal[1] = 0 => ret[2].cpuLim = NA
        /\ PodLimitTotal[2] = 0 => ret[2].memLim = NA
        /\ PodRequestTotal[1] # 0 => ret[2].cpu # NA
        /\ PodRequestTotal[2] \div MegaByte # 0 => ret[2].mem # NA
        /\ PodLimitTotal[1] # 0 => ret[2].cpuLim # NA
        /\ PodLimitTotal[2] \div MegaByte # 0 => ret[2].memLim # NA

\* C7 happens: with cpu in use, the cpu limit total is zero and the cpu
\* request total is not; the limit percentage is the sentinel and the request
\* percentage is a number.
C7_Witness ==
    /\ op = "gatherPodMX" /\ pc = "done" /\ mx # Nil
    /\ currentRes(mx)[1] > 0
    /\ PodLimitTotal[1] = 0 /\ PodRequestTotal[1] = 250
    /\ ret[2].cpuLim = NA
    /\ ret[2].cpu = Itoa((currentRes(mx)[1] * 100) \div 250)

-----------------------------------------------------------------------------
(* The row colorer.  A row field is the Go string made of pre spaces, text *)
(* and post spaces, where text neither starts nor ends with a space.       *)

PendingColor == "PendingColor"
AddColor == "AddColor"
ModColor == "ModColor"
HighlightColor == "HighlightColor"
CompletedColor == "CompletedColor"
StdColor == "StdColor"
ErrColor == "ErrColor"
KillColor == "KillColor"

Field(pre, text, post) == [pre |-> pre, text |-> text, post |-> post]

\* strings.TrimSpace
TrimSpace(f) == f.text

\* Header.IndexOf: the Go index of the first column of that name, or -1.
IndexOf(hh, name) ==
    IF \E i \in DOMAIN hh : hh[i].Name = name
    THEN (CHOOSE i \in DOMAIN hh :
            hh[i].Name = name /\ \A j \in DOMAIN hh : hh[j].Name = name => i <= j) - 1
    ELSE -1

\* Happy: the readiness predicate of the row, an input of the colorer.
Happy(ns, hh, row) == row.Happy

\* DefaultColorer: the colour of the row event, or the error colour of an
\* unhappy row.
DefaultColorer(ns, hh, rev) ==
    IF ~Happy(ns, hh, rev.Row) THEN ErrColor
    ELSE CASE rev.Kind = "EventAdd" -> AddColor
           [] rev.Kind = "EventUpdate" -> ModColor
           [] rev.Kind = "EventDelete" -> KillColor
           [] OTHER -> StdColor

\* Mutant: the status field is compared without trimming it.
ColorerFunc_NoTrim(ns, hh, rev) ==
    LET c == DefaultColorer(ns, hh, rev)
        statusCol == IndexOf(hh, "STATUS")
    IN  IF statusCol = -1 THEN c
        ELSE LET f == rev.Row.Fields[statusCol + 1]
                 status == IF f.pre = 0 /\ f.post = 0 THEN f.text ELSE "?"
             IN  CASE status = Pending -> PendingColor
                   [] status \in {ContainerCreating, PodInitializing} -> AddColor
                   [] status = Initialized -> HighlightColor
                   [] status = Completed -> CompletedColor
                   [] status = Running ->
                        IF ~Happy(ns, hh, rev.Row) THEN ErrColor ELSE StdColor
                   [] status = Terminating -> KillColor
                   [] OTHER -> IF ~Happy(ns, hh, rev.Row) THEN ErrColor ELSE c

\* The function ColorerFunc returns, applied to (ns, h, re).
ColorerFunc(ns, hh, rev) ==
    LET c == DefaultColorer(ns, hh, rev)
        statusCol == IndexOf(hh, "STATUS")
    IN  IF statusCol = -1 THEN c
        ELSE LET status == TrimSpace(rev.Row.Fields[statusCol + 1])
             IN  CASE status = Pending -> PendingColor
                   [] status \in {ContainerCreating, PodInitializing} -> AddColor
                   [] status = Initialized -> HighlightColor
                   [] status = Completed -> CompletedColor
                   [] status = Running ->
                        IF ~Happy(ns, hh, rev.Row) THEN ErrColor ELSE StdColor
                   [] status = Terminating -> KillColor
                   [] OTHER -> IF ~Happy(ns, hh, rev.Row) THEN ErrColor ELSE c

MaxPad == 1

Column(name) == [Name |-> name]
Headers ==
    {<<Column("NAME"), Column("STATUS")>>,
     <<Column("STATUS"), Column("NAME")>>,
     <<Column("NAME")>>}

StatusTexts ==
    {Pending, ContainerCreating, PodInitializing, Initialized, Completed, Running,
     Terminating, "CrashLoopBackOff", "Init:0/1", ""}

EventKinds == {"EventAdd", "EventUpdate", "EventDelete", "EventUnchanged"}

\* The row of a header: the pod name, and the status where the header has one.
RowFields(hh, status) ==
    [i \in DOMAIN hh |-> IF hh[i].Name = "STATUS" THEN status ELSE Field(0, "nginx", 0)]

InitColor ==
    /\ op = "ColorerFunc" /\ pc = "call"
    /\ h \in Headers
    /\ \E k \in EventKinds, ok \in BOOLEAN, t \in StatusTexts,
          pre \in 0..MaxPad, post \in 0..MaxPad :
            re = [Kind |-> k,
                  Row |-> [Fields |-> RowFields(h, Field(pre, t, post)), Happy |-> ok]]
    /\ po = NoPod /\ cc = <<>> /\ mx = Nil /\ dg = NoDiag
    /\ ret = NoRet

CallColorerFunc ==
    /\ op = "ColorerFunc" /\ pc = "call"
    /\ ret' = <<ColorerFunc("default", h, re)>>
    /\ pc' = "done"
    /\ UNCHANGED <<op, po, cc, mx, dg, h, re>>

NextColor == CallColorerFunc

SpecColor == InitColor /\ [][NextColor]_vars

\* The row has a STATUS column, and the colorer ran.
ColorDone ==
    op = "ColorerFunc" /\ pc = "done" /\ \E i \in DOMAIN h : h[i].Name = "STATUS"

\* The text of the row's status: the STATUS field without its padding.
RowStatus ==
    LET i == CHOOSE j \in DOMAIN h : h[j].Name = "STATUS" IN re.Row.Fields[i].text

\* The colour the mapping gives the row when any other status gets `other`.
MappedColor(other) ==
    CASE RowStatus = "Pending" -> PendingColor
      [] RowStatus = "ContainerCreating" \/ RowStatus = "PodInitializing" -> AddColor
      [] RowStatus = "Initialized" -> HighlightColor
      [] RowStatus = "Completed" -> CompletedColor
      [] RowStatus = "Running" -> IF re.Row.Happy THEN StdColor ELSE ErrColor
      [] RowStatus = "Terminating" -> KillColor
      [] OTHER -> IF re.Row.Happy THEN other ELSE ErrColor

====
